---- MODULE Spec2Model ----
(***************************************************************************)
(* The timeline state machine of src/src/App.tsx: the React state of App   *)
(* (videoFile, videoDuration, bisectState, isVideoReady, stepCount,        *)
(* isPlaying, isDragging, dragType), the <video> element it drives, and    *)
(* one action per event handler.  Times are integers counted in ticks of   *)
(* a quarter of a second.  A handler runs to completion and React          *)
(* re-renders (and re-subscribes the effects) before the next event.       *)
(***************************************************************************)
EXTENDS Integers, Sequences, FiniteSets

\* The source's literal 1 (second) of "endTime - 1" and "startTime + 1",
\* in ticks.
OneSecond == 4

\* ---------------------------------------------------------------- bounds
\* Longest video, in ticks.
MaxDuration == 8
\* The step counter is capped by a guard of the bisect action.
MaxSteps == 2
\* video.duration values the loadedmetadata event can report (duration / 2
\* and two further halvings stay on the tick grid).
Durations == {d \in 1..MaxDuration : d % 8 = 0}

\* timelineRef.current.getBoundingClientRect(), in pixels.
TimelineRect == [left |-> 1, width |-> 4]
\* e.clientX of a mouse event: from left of the track to right of it.
ClientXs == 0..(TimelineRect.left + TimelineRect.width + 1)

\* video.currentTime values that playback passes through between two events:
\* as fine as the pointer resolves the timeline.
PlaybackTimes == {t \in 1..MaxDuration : t % 2 = 0}

DragTypes == {"playhead", "startHandle", "endHandle"}

VARIABLES
    videoFile,      \* TRUE iff videoFile is a File (not null)
    videoDuration,
    bisectState,    \* Null or [startTime, endTime, currentTime]
    isVideoReady,
    stepCount,
    isPlaying,
    isDragging,
    dragType,       \* a DragType or "null"
    video,          \* the <video> element behind videoRef
    pendingPause    \* a "pause" event the element has still to deliver

vars == <<videoFile, videoDuration, bisectState, isVideoReady, stepCount,
          isPlaying, isDragging, dragType, video, pendingPause>>

react == <<videoFile, videoDuration, bisectState, isVideoReady, stepCount,
           isPlaying, isDragging, dragType>>

\* useState<BisectState | null>(null)
Null == [startTime |-> -1, endTime |-> -1, currentTime |-> -1]

Min(a, b) == IF a <= b THEN a ELSE b
Max(a, b) == IF a >= b THEN a ELSE b

\* A <video> element with no source bound: what videoRef.current is right
\* after the element is mounted.
FreshVideo == [src |-> FALSE, loaded |-> FALSE, duration |-> 0,
               currentTime |-> 0, paused |-> TRUE, seeking |-> FALSE]

\* video.currentTime = t: a seek.  The element jumps to t at once, kept
\* inside the media resource, and delivers one "seeked" event once the
\* frame is there; a seek issued meanwhile supersedes the one in flight.
SetCurrentTime(v, t) ==
    [v EXCEPT !.currentTime = Max(0, Min(v.duration, t)), !.seeking = TRUE]

\* (a + b) / 2 on the tick grid; Representable guards the actions using it.
Midpoint(a, b) == (a + b) \div 2
Representable(a, b) == (a + b) % 2 = 0

Init ==
    /\ videoFile = FALSE
    /\ videoDuration = 0
    /\ bisectState = Null
    /\ isVideoReady = FALSE
    /\ stepCount = 0
    /\ isPlaying = FALSE
    /\ isDragging = FALSE
    /\ dragType = "null"
    /\ video = FreshVideo
    /\ pendingPause = FALSE

\* ------------------------------------------------------------ file, load
\* handleFileSelect, reached from the drop zone, which is rendered only
\* while videoFile is null.  The effect on [videoFile] then binds the
\* object URL to the freshly mounted element.
handleFileSelect(isVideoType) ==
    /\ ~videoFile
    /\ IF isVideoType
       THEN /\ videoFile' = TRUE
            /\ isVideoReady' = FALSE
            /\ stepCount' = 0
            /\ video' = [FreshVideo EXCEPT !.src = TRUE]
       ELSE UNCHANGED <<videoFile, isVideoReady, stepCount, video>>
    /\ UNCHANGED <<videoDuration, bisectState, isPlaying, isDragging,
                   dragType, pendingPause>>

\* handleLoadedMetadata: the element reports its duration.
handleLoadedMetadata(duration) ==
    /\ video.src /\ ~video.loaded
    /\ Representable(0, duration)
    /\ LET midpoint == Midpoint(0, duration) IN
        /\ videoDuration' = duration
        /\ bisectState' = [startTime |-> 0, endTime |-> duration,
                           currentTime |-> midpoint]
        /\ video' = SetCurrentTime([video EXCEPT !.loaded = TRUE,
                                                 !.duration = duration],
                                   midpoint)
    /\ UNCHANGED <<videoFile, isVideoReady, stepCount, isPlaying, isDragging,
                   dragType, pendingPause>>

\* Mutant of handleSeeked: the event is consumed and the video is not
\* marked ready.
handleSeeked_StaysPending ==
    /\ video.seeking
    /\ video' = [video EXCEPT !.seeking = FALSE]
    /\ UNCHANGED <<videoFile, videoDuration, bisectState, isVideoReady,
                   stepCount, isPlaying, isDragging, dragType, pendingPause>>

\* handleSeeked: the element delivers "seeked" for the seek in flight.
handleSeeked ==
    /\ video.seeking
    /\ video' = [video EXCEPT !.seeking = FALSE]
    /\ isVideoReady' = TRUE
    /\ UNCHANGED <<videoFile, videoDuration, bisectState, stepCount,
                   isPlaying, isDragging, dragType, pendingPause>>

\* Mutant of handleReset: the search interval survives the reset.
handleReset_KeepsInterval ==
    /\ bisectState # Null
    /\ videoFile' = FALSE
    /\ isVideoReady' = FALSE
    /\ stepCount' = 0
    /\ video' = FreshVideo
    /\ pendingPause' = FALSE
    /\ UNCHANGED <<videoDuration, bisectState, isPlaying, isDragging,
                   dragType>>

\* handleReset, reached from the reset button of the info panel, which is
\* rendered only while bisectState is set.  The <video> element unmounts
\* and the effects' cleanups remove its listeners.
handleReset ==
    /\ bisectState # Null
    /\ videoFile' = FALSE
    /\ bisectState' = Null
    /\ isVideoReady' = FALSE
    /\ stepCount' = 0
    /\ video' = FreshVideo
    /\ pendingPause' = FALSE
    /\ UNCHANGED <<videoDuration, isPlaying, isDragging, dragType>>

\* ----------------------------------------------------------------- bisect
\* Mutant of newState: "still there" forgets to move the start bound.
newState_KeepsStart(b, itemStillThere) ==
    IF itemStillThere
    THEN [startTime |-> b.startTime,
          endTime |-> b.endTime,
          currentTime |-> Midpoint(b.currentTime, b.endTime)]
    ELSE [startTime |-> b.startTime,
          endTime |-> b.currentTime,
          currentTime |-> Midpoint(b.startTime, b.currentTime)]

\* Mutant of newState: "stolen" keeps the whole interval.
newState_KeepsEnd(b, itemStillThere) ==
    IF itemStillThere
    THEN [startTime |-> b.currentTime,
          endTime |-> b.endTime,
          currentTime |-> Midpoint(b.currentTime, b.endTime)]
    ELSE [startTime |-> b.startTime,
          endTime |-> b.endTime,
          currentTime |-> Midpoint(b.startTime, b.currentTime)]

\* The newState of handleBisect.
newState(b, itemStillThere) ==
    IF itemStillThere
    THEN [startTime |-> b.currentTime,
          endTime |-> b.endTime,
          currentTime |-> Midpoint(b.currentTime, b.endTime)]
    ELSE [startTime |-> b.startTime,
          endTime |-> b.currentTime,
          currentTime |-> Midpoint(b.startTime, b.currentTime)]

\* Mutant of bisectDisabled: the buttons stay enabled during playback.
bisectDisabled_IgnoresPlaying == ~isVideoReady

\* disabled={!isVideoReady || isPlaying} of the two bisect buttons.
bisectDisabled == ~isVideoReady \/ isPlaying

\* Mutant of handleBisect: a decision is applied without being counted.
handleBisect_NoCount(itemStillThere) ==
    /\ videoFile
    /\ IF bisectDisabled \/ bisectState = Null
       THEN UNCHANGED vars
       ELSE /\ stepCount < MaxSteps
            /\ IF itemStillThere
               THEN Representable(bisectState.currentTime, bisectState.endTime)
               ELSE Representable(bisectState.startTime, bisectState.currentTime)
            /\ LET new == newState(bisectState, itemStillThere) IN
                /\ isVideoReady' = FALSE
                /\ bisectState' = new
                /\ video' = SetCurrentTime(video, new.currentTime)
            /\ UNCHANGED <<videoFile, videoDuration, stepCount, isPlaying,
                           isDragging, dragType, pendingPause>>

\* A click on "Item Still There" (TRUE) or "Item Stolen" (FALSE); the
\* buttons are rendered while videoFile is set.  A disabled button delivers
\* no click; otherwise handleBisect runs.
handleBisect(itemStillThere) ==
    /\ videoFile
    /\ IF bisectDisabled \/ bisectState = Null
       THEN UNCHANGED vars
       ELSE /\ stepCount < MaxSteps
            /\ IF itemStillThere
               THEN Representable(bisectState.currentTime, bisectState.endTime)
               ELSE Representable(bisectState.startTime, bisectState.currentTime)
            /\ LET new == newState(bisectState, itemStillThere) IN
                /\ isVideoReady' = FALSE
                /\ bisectState' = new
                /\ video' = SetCurrentTime(video, new.currentTime)
                /\ stepCount' = stepCount + 1
            /\ UNCHANGED <<videoFile, videoDuration, isPlaying, isDragging,
                           dragType, pendingPause>>

\* --------------------------------------------------------------- playback
\* video.play(): playback starts; an element that has ended playback first
\* seeks itself to the start of the media resource.
Play(v) ==
    IF v.currentTime >= v.duration
    THEN [v EXCEPT !.paused = FALSE, !.currentTime = 0, !.seeking = TRUE]
    ELSE [v EXCEPT !.paused = FALSE]

\* The condition under which handlePlayPause seeks before it plays.
restart(b, v) == v.currentTime >= b.endTime \/ v.currentTime < b.startTime

\* A click on the play/pause button, rendered while bisectState is set and
\* disabled while the video is not ready; otherwise handlePlayPause runs.
handlePlayPause ==
    /\ bisectState # Null
    /\ IF ~isVideoReady
       THEN UNCHANGED vars
       ELSE IF isPlaying
       THEN /\ video' = [video EXCEPT !.paused = TRUE]
            /\ pendingPause' = (pendingPause \/ ~video.paused)
            /\ isPlaying' = FALSE
            /\ UNCHANGED <<videoFile, videoDuration, bisectState,
                           isVideoReady, stepCount, isDragging, dragType>>
       ELSE /\ video' = Play(IF restart(bisectState, video)
                             THEN SetCurrentTime(video, bisectState.startTime)
                             ELSE video)
            /\ isPlaying' = TRUE
            /\ UNCHANGED <<videoFile, videoDuration, bisectState,
                           isVideoReady, stepCount, isDragging, dragType,
                           pendingPause>>

\* Mutant of loopSeek: loops only once strictly past the end of the range.
loopSeek_StrictlyPast(b, v) ==
    IF v.currentTime > b.endTime
    THEN SetCurrentTime(v, b.startTime)
    ELSE v

\* The loop of handleTimeUpdate: back to the start of the range once the
\* element is at or past its end.
loopSeek(b, v) ==
    IF v.currentTime >= b.endTime
    THEN SetCurrentTime(v, b.startTime)
    ELSE v

\* handleTimeUpdate: a "timeupdate" event is delivered.  The updater passed
\* to setBisectState reads video.currentTime when React runs it: at once
\* (before the loop seek; lazy = FALSE) or at the next render (after it).
handleTimeUpdate(lazy) ==
    /\ video.loaded
    /\ bisectState # Null
    /\ IF ~isPlaying
       THEN ~lazy /\ UNCHANGED vars
       ELSE LET sought == loopSeek(bisectState, video)
            IN  /\ lazy => sought # video
                /\ bisectState' =
                     [bisectState EXCEPT !.currentTime =
                        IF lazy THEN sought.currentTime
                                ELSE video.currentTime]
                /\ video' = sought
                /\ UNCHANGED <<videoFile, videoDuration, isVideoReady,
                               stepCount, isPlaying, isDragging, dragType,
                               pendingPause>>

\* Mutant of handlePause: the status becomes paused and the playhead of the
\* model is left where the last "timeupdate" put it.
handlePause_NoReconcile ==
    /\ pendingPause
    /\ bisectState # Null
    /\ pendingPause' = FALSE
    /\ isPlaying' = FALSE
    /\ UNCHANGED <<videoFile, videoDuration, bisectState, isVideoReady,
                   stepCount, isDragging, dragType, video>>

\* handlePause: a "pause" event is delivered.
handlePause ==
    /\ pendingPause
    /\ bisectState # Null
    /\ pendingPause' = FALSE
    /\ IF isPlaying
       THEN /\ isPlaying' = FALSE
            /\ bisectState' = [bisectState EXCEPT
                                 !.currentTime = video.currentTime]
       ELSE UNCHANGED <<isPlaying, bisectState>>
    /\ UNCHANGED <<videoFile, videoDuration, isVideoReady, stepCount,
                   isDragging, dragType, video>>

\* The element plays on to position t; reaching the end of the media
\* resource pauses it.
Playback(t) ==
    /\ video.loaded /\ ~video.paused
    /\ t > video.currentTime /\ t <= video.duration
    /\ video' = [video EXCEPT !.currentTime = t,
                              !.paused = (t = video.duration)]
    /\ pendingPause' = (pendingPause \/ t = video.duration)
    /\ UNCHANGED react

\* The element is paused from outside the application.
ExternalPause ==
    /\ video.loaded /\ ~video.paused
    /\ video' = [video EXCEPT !.paused = TRUE]
    /\ pendingPause' = TRUE
    /\ UNCHANGED react

\* ------------------------------------------------------- timeline and drag
\* getTimeFromMousePosition: the pointer's x mapped linearly onto
\* [0, videoDuration], with the fraction clamped to [0, 1].
getTimeFromMousePosition(clientX) ==
    IF videoDuration = 0
    THEN 0
    ELSE LET x == clientX - TimelineRect.left
             clamped == Max(0, Min(TimelineRect.width, x))
         IN  (clamped * videoDuration) \div TimelineRect.width

\* The pointer positions whose mapped time lies on the tick grid.
OnGrid(clientX) ==
    LET x == clientX - TimelineRect.left
        clamped == Max(0, Min(TimelineRect.width, x))
    IN  (clamped * videoDuration) % TimelineRect.width = 0

\* Mutant of movePlayhead: the playhead is clamped into the range instead
\* of expanding it.
movePlayhead_Clamped(b, newTime) ==
    [startTime |-> b.startTime, endTime |-> b.endTime,
     currentTime |-> Max(b.startTime, Min(b.endTime, newTime))]

\* The playhead branch of handleMouseMove, and handleTimelineClick: the
\* range expands to hold the new playhead.
movePlayhead(b, newTime) ==
    LET constrainedTime == Max(0, Min(videoDuration, newTime))
        newStartTime == Min(b.startTime, constrainedTime)
        newEndTime == Max(b.endTime, constrainedTime)
    IN  [startTime |-> newStartTime, endTime |-> newEndTime,
         currentTime |-> constrainedTime]

\* Mutant of moveStartHandle: the bound moves and the playhead is left
\* behind it.
moveStartHandle_LeavesPlayhead(b, newTime) ==
    LET constrainedTime == Max(0, Min(b.endTime - OneSecond, newTime))
    IN  [startTime |-> constrainedTime,
         endTime |-> b.endTime,
         currentTime |-> b.currentTime]

\* The startHandle branch of handleMouseMove.
moveStartHandle(b, newTime) ==
    LET constrainedTime == Max(0, Min(b.endTime - OneSecond, newTime))
    IN  [startTime |-> constrainedTime,
         endTime |-> b.endTime,
         currentTime |-> IF b.currentTime < constrainedTime
                         THEN constrainedTime ELSE b.currentTime]

\* The endHandle branch of handleMouseMove.
moveEndHandle(b, newTime) ==
    LET constrainedTime == Max(b.startTime + OneSecond,
                               Min(videoDuration, newTime))
    IN  [startTime |-> b.startTime,
         endTime |-> constrainedTime,
         currentTime |-> IF b.currentTime > constrainedTime
                         THEN constrainedTime ELSE b.currentTime]

\* handleDragStart(type): mouse down on a handle or on the playhead, which
\* are rendered while bisectState is set.
handleDragStart(type) ==
    /\ bisectState # Null
    /\ isDragging' = TRUE
    /\ dragType' = type
    /\ UNCHANGED <<videoFile, videoDuration, bisectState, isVideoReady,
                   stepCount, isPlaying, video, pendingPause>>

\* The drag effect subscribes handleMouseMove and handleMouseUp only then.
dragSubscribed ==
    isDragging /\ dragType # "null" /\ bisectState # Null /\ videoFile

\* Mutant of handleMouseMove: every pointer move of a drag seeks.
handleMouseMove_AlwaysSeeks(clientX) ==
    /\ dragSubscribed
    /\ OnGrid(clientX)
    /\ LET newTime == getTimeFromMousePosition(clientX)
           new == IF dragType = "playhead"
                  THEN movePlayhead(bisectState, newTime)
                  ELSE IF dragType = "startHandle"
                  THEN moveStartHandle(bisectState, newTime)
                  ELSE moveEndHandle(bisectState, newTime)
       IN  /\ bisectState' = new
           /\ video' = SetCurrentTime(video, new.currentTime)
    /\ UNCHANGED <<videoFile, videoDuration, isVideoReady, stepCount,
                   isPlaying, isDragging, dragType, pendingPause>>

\* handleMouseMove: the pointer moves during a drag.  A handle move seeks
\* only when it pulls the playhead along.
handleMouseMove(clientX) ==
    /\ dragSubscribed
    /\ OnGrid(clientX)
    /\ LET newTime == getTimeFromMousePosition(clientX)
           new == IF dragType = "playhead"
                  THEN movePlayhead(bisectState, newTime)
                  ELSE IF dragType = "startHandle"
                  THEN moveStartHandle(bisectState, newTime)
                  ELSE moveEndHandle(bisectState, newTime)
           seek == IF dragType = "playhead"
                   THEN TRUE
                   ELSE new.currentTime # bisectState.currentTime
       IN  /\ bisectState' = new
           /\ video' = IF seek THEN SetCurrentTime(video, new.currentTime)
                               ELSE video
    /\ UNCHANGED <<videoFile, videoDuration, isVideoReady, stepCount,
                   isPlaying, isDragging, dragType, pendingPause>>

\* handleMouseUp: the drag ends.
handleMouseUp ==
    /\ dragSubscribed
    /\ isDragging' = FALSE
    /\ dragType' = "null"
    /\ UNCHANGED <<videoFile, videoDuration, bisectState, isVideoReady,
                   stepCount, isPlaying, video, pendingPause>>

\* handleTimelineClick: a click on the timeline, rendered while bisectState
\* is set; ignored during a drag.
handleTimelineClick(clientX) ==
    /\ bisectState # Null
    /\ OnGrid(clientX)
    /\ IF isDragging
       THEN UNCHANGED vars
       ELSE LET new == movePlayhead(bisectState,
                                    getTimeFromMousePosition(clientX))
            IN  /\ bisectState' = new
                /\ video' = SetCurrentTime(video, new.currentTime)
                /\ UNCHANGED <<videoFile, videoDuration, isVideoReady,
                               stepCount, isPlaying, isDragging, dragType,
                               pendingPause>>

\* ================================================================ claims
Loaded == bisectState # Null
Width(b) == b.endTime - b.startTime
\* handleBisect runs (the button is enabled) with verdict itemStillThere.
BisectApplied(itemStillThere) ==
    handleBisect(itemStillThere) /\ Loaded /\ ~bisectDisabled

\* C1: in every state with a video loaded,
\* 0 <= startTime <= currentTime <= endTime <= duration.
C1_IntervalOrdered ==
    Loaded =>
        /\ 0 <= bisectState.startTime
        /\ bisectState.startTime <= bisectState.currentTime
        /\ bisectState.currentTime <= bisectState.endTime
        /\ bisectState.endTime <= videoDuration

\* C2: a bisect with verdict "present" yields startTime' = currentTime,
\* endTime' = endTime, currentTime' = (currentTime + endTime) / 2; with
\* verdict "absent" it yields startTime' = startTime, endTime' =
\* currentTime, currentTime' = (startTime + currentTime) / 2.
C2_BisectHalving ==
    [][\A itemStillThere \in BOOLEAN :
         BisectApplied(itemStillThere) =>
            IF itemStillThere
            THEN /\ bisectState'.startTime = bisectState.currentTime
                 /\ bisectState'.endTime = bisectState.endTime
                 /\ 2 * bisectState'.currentTime =
                        bisectState.currentTime + bisectState.endTime
            ELSE /\ bisectState'.startTime = bisectState.startTime
                 /\ bisectState'.endTime = bisectState.currentTime
                 /\ 2 * bisectState'.currentTime =
                        bisectState.startTime + bisectState.currentTime]_vars

\* C2 witness: "still there" then "stolen" on the loaded video have left
\* the quarter [4, 6] with the playhead on its midpoint, the seek in flight.
C2_Witness ==
    /\ stepCount = 2
    /\ bisectState = [startTime |-> 4, endTime |-> 6, currentTime |-> 5]
    /\ ~isVideoReady /\ video.seeking /\ video.currentTime = 5

\* C3 as stated: after any bisect, from any reachable state, the new width
\* is at most half of the old one.
C3_HalvesFromAnyState ==
    [][\A itemStillThere \in BOOLEAN :
         BisectApplied(itemStillThere) =>
            2 * Width(bisectState') <= Width(bisectState)]_vars

\* C3 amended: after a bisect from a state whose playhead is the midpoint
\* of the interval, the new width is at most half of the old one.
C3_HalvesFromMidpoint ==
    [][\A itemStillThere \in BOOLEAN :
         (/\ BisectApplied(itemStillThere)
          /\ 2 * bisectState.currentTime =
                 bisectState.startTime + bisectState.endTime)
         => 2 * Width(bisectState') <= Width(bisectState)]_vars

\* C3 witness: one bisect on the freshly loaded video has halved [0, 8].
C3_Witness ==
    /\ stepCount = 1
    /\ videoDuration = 8
    /\ bisectState = [startTime |-> 4, endTime |-> 8, currentTime |-> 6]
    /\ ~isVideoReady /\ video.seeking

\* C4: with a video loaded and no drag in progress the interval is at
\* least the minimum granularity wide; the least granularity of the tick
\* grid is one tick, so it is never of width zero.
C4_MinimumWidth ==
    (Loaded /\ ~isDragging) => Width(bisectState) >= 1

\* C5: a playhead drag move, or a timeline click outside a drag, to the
\* mapped time t yields currentTime' = t, startTime' = min(startTime, t),
\* endTime' = max(endTime, t); the interval is unchanged when t is in it.
C5_PlayheadExpands ==
    [][\A clientX \in ClientXs :
         LET t == getTimeFromMousePosition(clientX) IN
         (\/ ~isDragging /\ handleTimelineClick(clientX)
          \/ dragType = "playhead" /\ handleMouseMove(clientX))
         => /\ 0 <= t /\ t <= videoDuration
            /\ bisectState'.currentTime = t
            /\ bisectState'.startTime =
                 (IF t < bisectState.startTime THEN t
                                               ELSE bisectState.startTime)
            /\ bisectState'.endTime =
                 (IF t > bisectState.endTime THEN t
                                             ELSE bisectState.endTime)]_vars

\* C5 witness: after one bisect the playhead was put at time 0, outside the
\* halved interval, and the interval has grown back to [0, 8].
C5_Witness ==
    /\ stepCount = 1
    /\ bisectState = [startTime |-> 0, endTime |-> 8, currentTime |-> 0]
    /\ video.currentTime = 0 /\ video.seeking

\* C6: from every reachable state, a startHandle move to any requested
\* time leaves startTime' < endTime, and an endHandle move to any requested
\* time leaves endTime' > startTime.
C6_HandleOrdering ==
    Loaded =>
        \A clientX \in ClientXs :
            LET t == getTimeFromMousePosition(clientX) IN
            /\ moveStartHandle(bisectState, t).startTime
                 < bisectState.endTime
            /\ moveEndHandle(bisectState, t).endTime
                 > bisectState.startTime

\* C7: while playing, a time-advance at or past endTime issues a seek to
\* startTime and leaves the playback status playing.
C7_PlaybackLoops ==
    [][\A lazy \in BOOLEAN :
         (/\ handleTimeUpdate(lazy)
          /\ isPlaying
          /\ video.currentTime >= bisectState.endTime)
         => /\ video' = SetCurrentTime(video, bisectState.startTime)
            /\ isPlaying']_vars

\* C7 witness: playback ran past the end of the range; the handler took
\* the reported time and sent the element, still playing, back to the
\* start of the range.
C7_Witness ==
    /\ isPlaying /\ ~video.paused
    /\ bisectState.currentTime > bisectState.endTime
    /\ video.seeking /\ video.currentTime = bisectState.startTime

\* C8: a bisect decision attempted while playing, while the video is not
\* ready, or before a video is loaded changes nothing and issues no seek.
C8_BisectRejected ==
    [][\A itemStillThere \in BOOLEAN :
         (/\ handleBisect(itemStillThere)
          /\ (isPlaying \/ ~isVideoReady \/ ~Loaded))
         => UNCHANGED <<bisectState, stepCount, isVideoReady, isPlaying,
                        video>>]_vars

\* C8 witness: playing, with the video ready and a bisect that would
\* otherwise apply.
C8_Witness ==
    /\ Loaded /\ isPlaying /\ isVideoReady /\ ~video.paused
    /\ stepCount < MaxSteps
    /\ Representable(bisectState.currentTime, bisectState.endTime)
    /\ bisectState.currentTime < bisectState.endTime

\* C9: while playing, a pointer move of a drag leaves the interval and the
\* playhead unchanged and issues no seek.
C9_DragRejectedWhilePlaying ==
    [][\A clientX \in ClientXs :
         (handleMouseMove(clientX) /\ isPlaying)
         => UNCHANGED <<bisectState, video>>]_vars

\* C10: every user operation that changes currentTime (bisect, playhead
\* move, timeline click, handle move pulling the playhead) leaves the
\* readiness pending.
C10_UserSeekSetsPending ==
    [][(/\ \/ \E itemStillThere \in BOOLEAN : handleBisect(itemStillThere)
           \/ \E clientX \in ClientXs : handleMouseMove(clientX)
           \/ \E clientX \in ClientXs : handleTimelineClick(clientX)
        /\ bisectState'.currentTime # bisectState.currentTime)
       => ~isVideoReady']_vars

\* C11: stepCount counts the bisect decisions applied since the load: the
\* load leaves it 0, every applied decision adds exactly 1, and it changes
\* in no other step while a video stays loaded (clicks, drags, play, pause
\* and media events leave it alone; only a reset or a new file, after which
\* no video is loaded, returns it to 0).
C11_StepCountCountsBisects ==
    [][/\ (\E duration \in Durations : handleLoadedMetadata(duration))
            => stepCount' = 0
       /\ \A itemStillThere \in BOOLEAN :
            BisectApplied(itemStillThere) => stepCount' = stepCount + 1
       /\ stepCount' # stepCount
            => \/ \E itemStillThere \in BOOLEAN : BisectApplied(itemStillThere)
               \/ stepCount' = 0 /\ ~Loaded']_vars

\* The video of 8 ticks after "still there" ([4, 8], playhead 6, 1 step)
\* and then "stolen" ([4, 6], playhead 5, 2 steps), the last seek completed.
C11_Witness ==
    /\ Loaded
    /\ stepCount = 2
    /\ bisectState = [startTime |-> 4, endTime |-> 6, currentTime |-> 5]
    /\ isVideoReady
    /\ ~video.seeking

\* C12: when the metadata is ready the search interval is created as
\* [0, duration] with the playhead at duration / 2 and a seek to duration / 2
\* is issued; a reset, from any state, destroys the interval and returns to
\* the no-video state with step count 0 and the readiness pending; every
\* load, also one after a reset, starts from [0, duration] and duration / 2.
C12_Lifecycle ==
    [][/\ \A duration \in Durations :
            handleLoadedMetadata(duration)
            => /\ bisectState'.startTime = 0
               /\ bisectState'.endTime = duration
               /\ 2 * bisectState'.currentTime = duration
               /\ video' = SetCurrentTime([video EXCEPT !.loaded = TRUE,
                                                        !.duration = duration],
                                          bisectState'.currentTime)
               /\ video'.seeking
               /\ ~isVideoReady'
               /\ stepCount' = 0
       /\ handleReset
            => /\ bisectState' = Null
               /\ ~videoFile'
               /\ video' = FreshVideo
               /\ stepCount' = 0
               /\ ~isVideoReady']_vars

\* A video loaded after a reset: the fresh interval [0, 8] with its first
\* seek in flight, while isPlaying still holds from before the reset (play
\* needs a ready video, and a loaded video with no step taken is pending
\* only until its first seek completes).
C12_Witness ==
    /\ Loaded
    /\ stepCount = 0
    /\ bisectState = [startTime |-> 0, endTime |-> 8, currentTime |-> 4]
    /\ ~isVideoReady
    /\ video.seeking
    /\ video.currentTime = 4
    /\ isPlaying

\* C13: whenever the video is ready, playback is paused and no drag is in
\* progress, the position the element has rendered equals the playhead of
\* the model.  Stated for the settled states alone, where the element is
\* paused too, no seek is in flight and no "pause" event is still to be
\* delivered, so that the element's position is the frame it shows.
C13_RenderedMatchesModel ==
    (Loaded /\ isVideoReady /\ ~isPlaying /\ ~isDragging
       /\ video.paused /\ ~video.seeking /\ ~pendingPause)
    => video.currentTime = bisectState.currentTime

\* C14: a startHandle move whose new startTime exceeds the playhead moves
\* bound and playhead in the one transition, to currentTime' = startTime';
\* an endHandle move whose new endTime is below the playhead likewise ends
\* with currentTime' = endTime'.  The state after a startHandle move never
\* has currentTime < startTime, the state after an endHandle move never has
\* currentTime > endTime: no state between the two updates is observable.
C14_HandlePullsPlayhead ==
    [][/\ (/\ isDragging /\ dragType = "startHandle"
           /\ \E clientX \in ClientXs : handleMouseMove(clientX))
          => /\ bisectState'.currentTime >= bisectState'.startTime
             /\ bisectState'.startTime > bisectState.currentTime
                  => bisectState'.currentTime = bisectState'.startTime
       /\ (/\ isDragging /\ dragType = "endHandle"
           /\ \E clientX \in ClientXs : handleMouseMove(clientX))
          => /\ bisectState'.currentTime <= bisectState'.endTime
             /\ bisectState'.endTime < bisectState.currentTime
                  => bisectState'.currentTime = bisectState'.endTime]_vars

\* A startHandle drag has pulled the playhead of the fresh interval from 0
\* to 2 (the playhead had been put at 0 by a click): bound and playhead
\* coincide and the seek to the new playhead is in flight.
C14_Witness ==
    /\ Loaded
    /\ isDragging
    /\ dragType = "startHandle"
    /\ stepCount = 0
    /\ bisectState = [startTime |-> 2, endTime |-> 8, currentTime |-> 2]
    /\ video.seeking
    /\ video.currentTime = 2

\* C15: a handle move that changes only a bound and leaves the playhead
\* where it was issues no seek and leaves the readiness unchanged; every
\* user operation that does change the playhead (bisect, timeline click,
\* move of a drag) issues one seek, whose target is the new playhead.
C15_SeekIffPlayheadMoves ==
    [][/\ (/\ isDragging /\ dragType \in {"startHandle", "endHandle"}
           /\ Loaded /\ Loaded'
           /\ bisectState' # bisectState
           /\ bisectState'.currentTime = bisectState.currentTime
           /\ \E clientX \in ClientXs : handleMouseMove(clientX))
          => /\ video' = video
             /\ isVideoReady' = isVideoReady
       /\ (/\ Loaded /\ Loaded'
           /\ bisectState'.currentTime # bisectState.currentTime
           /\ \/ \E itemStillThere \in BOOLEAN : handleBisect(itemStillThere)
              \/ \E clientX \in ClientXs : handleTimelineClick(clientX)
              \/ \E clientX \in ClientXs : handleMouseMove(clientX))
          => video' = SetCurrentTime(video, bisectState'.currentTime)]_vars

\* An endHandle drag has brought the end of the fresh interval from 8 down
\* to 6 with the playhead left at 4: the element still is at 4 with no seek
\* in flight and the video still ready.
C15_Witness ==
    /\ Loaded
    /\ isDragging
    /\ dragType = "endHandle"
    /\ stepCount = 0
    /\ bisectState = [startTime |-> 0, endTime |-> 6, currentTime |-> 4]
    /\ isVideoReady
    /\ ~video.seeking
    /\ video.currentTime = 4

\* C16: a handle move never puts a bound outside the video: from every
\* reachable state and for every pointer position a startHandle move gives
\* 0 <= startTime' <= endTime - 1 s and an endHandle move gives
\* startTime + 1 s <= endTime' <= duration.  Stated for what the two ranges
\* share, that the moved bound lies in [0, duration], and for the states
\* whose interval is non-empty and inside the video, which include the
\* intervals narrower than 1 s and those within 1 s of 0 or of the duration.
C16_HandleMoveStaysInside ==
    (/\ Loaded
     /\ 0 <= bisectState.startTime
     /\ bisectState.startTime < bisectState.endTime
     /\ bisectState.endTime <= videoDuration) =>
    \A clientX \in ClientXs :
        LET newTime == getTimeFromMousePosition(clientX)
            afterStart == moveStartHandle(bisectState, newTime)
            afterEnd == moveEndHandle(bisectState, newTime)
        IN  /\ 0 <= afterStart.startTime
            /\ afterStart.startTime <= videoDuration
            /\ 0 <= afterEnd.endTime
            /\ afterEnd.endTime <= videoDuration

\* C17: play from paused seeks the element to startTime before it plays
\* when the playhead of the model, currentTime, is at or past endTime or
\* before startTime, and issues no seek otherwise; either way the element is
\* told to play and the status becomes playing.  Pause from playing tells
\* the element to pause and the status becomes paused.
C17_PlayRestartsOnModelTime ==
    [][(handlePlayPause /\ Loaded /\ isVideoReady)
       => IF isPlaying
          THEN video'.paused /\ ~isPlaying'
          ELSE /\ isPlaying'
               /\ video' =
                    IF \/ bisectState.currentTime >= bisectState.endTime
                       \/ bisectState.currentTime < bisectState.startTime
                    THEN Play(SetCurrentTime(video, bisectState.startTime))
                    ELSE Play(video)]_vars

\* C18: while playing, every "timeupdate" sets the playhead of the model to
\* the position the element reports when the updater reads it (before the
\* loop seek of the same handler, or after it) and leaves startTime and
\* endTime unchanged; a "pause" event that arrives while the status still is
\* playing, so one the element originated, sets the playhead to the
\* element's position and the status to paused; while the status is paused,
\* "timeupdate" and "pause" events leave the search interval unchanged.
C18_MediaEventsMirrorElement ==
    [][/\ \A lazy \in BOOLEAN :
            handleTimeUpdate(lazy)
            => IF isPlaying
               THEN /\ bisectState'.currentTime
                         = IF lazy THEN video'.currentTime
                                   ELSE video.currentTime
                    /\ bisectState'.startTime = bisectState.startTime
                    /\ bisectState'.endTime = bisectState.endTime
                    /\ isPlaying'
               ELSE bisectState' = bisectState
       /\ handlePause
            => IF isPlaying
               THEN /\ bisectState'.currentTime = video.currentTime
                    /\ bisectState'.startTime = bisectState.startTime
                    /\ bisectState'.endTime = bisectState.endTime
                    /\ ~isPlaying'
               ELSE bisectState' = bisectState /\ ~isPlaying']_vars

\* The element played past the end of the range [0, 4] and was paused from
\* outside before a "timeupdate" could loop it; the "pause" event has been
\* delivered: the status is paused and the playhead of the model is where
\* the element stopped, at 6.
C18_Witness ==
    /\ Loaded
    /\ ~isPlaying
    /\ video.paused
    /\ ~pendingPause
    /\ ~video.seeking
    /\ bisectState.endTime = 4
    /\ bisectState.currentTime = 6
    /\ video.currentTime = 6

\* C19: if the element eventually delivers "seeked" for the latest seek,
\* every pending state with a video loaded (after the load or after a bisect
\* decision) is eventually followed by a ready state, unless a reset comes
\* first; in a ready state the bisect buttons are enabled again when paused;
\* and the readiness goes from pending to ready only in a handleSeeked step.
C19_PendingLeadsToReady ==
    /\ (Loaded /\ ~isVideoReady) ~> (isVideoReady \/ ~Loaded)
    /\ [](isVideoReady /\ ~isPlaying => ~bisectDisabled)
    /\ [][(~isVideoReady /\ isVideoReady') => handleSeeked]_vars

\* The seek of a bisect decision has completed: one step taken, the video
\* ready again with no seek in flight, paused, the buttons enabled.
C19_Witness ==
    /\ Loaded
    /\ stepCount = 1
    /\ isVideoReady
    /\ ~video.seeking
    /\ ~isPlaying
    /\ ~bisectDisabled
    /\ bisectState = [startTime |-> 0, endTime |-> 4, currentTime |-> 2]

\* C20: the status is playing and a drag is in progress only while a video
\* is loaded: with no video loaded, so after a reset from any state, the
\* playback status is paused and the drag kind is none.  Stated for the
\* playback status, which a reset reaches by a click on its button alone.
C20_PausedWithoutVideo ==
    ~Loaded => ~isPlaying

Next ==
    \/ \E isVideoType \in BOOLEAN : handleFileSelect(isVideoType)
    \/ \E duration \in Durations : handleLoadedMetadata(duration)
    \/ handleSeeked
    \/ handleReset
    \/ \E itemStillThere \in BOOLEAN : handleBisect(itemStillThere)
    \/ handlePlayPause
    \/ \E lazy \in BOOLEAN : handleTimeUpdate(lazy)
    \/ handlePause
    \/ \E t \in PlaybackTimes : Playback(t)
    \/ ExternalPause
    \/ \E type \in DragTypes : handleDragStart(type)
    \/ \E clientX \in ClientXs : handleMouseMove(clientX)
    \/ handleMouseUp
    \/ \E clientX \in ClientXs : handleTimelineClick(clientX)

Spec == Init /\ [][Next]_vars

\* The element delivers "seeked" once the frame of the latest seek is there:
\* a seek in flight is not left without its event forever.
FairSpec == Spec /\ WF_vars(handleSeeked)
====
